---- MODULE Spec2Model ----
(***************************************************************************)
(* badger: cluster media by capture time, score photos by sharpness and    *)
(* replicate them into <to>/<burst>/<score>_<id><ext>.                      *)
(*                                                                         *)
(* The model follows the pipeline of ProcessLibrary: the scoring workers   *)
(* of CalcuateBlur, the forwarding goroutine, the replication workers of   *)
(* CopyFiles and the orchestrator's result loop, over a destination file   *)
(* system and a metadata store that both survive the process.              *)
(***************************************************************************)
EXTENDS Integers, Sequences, FiniteSets, TLC

\* ------------------------------------------------------------------ bounds

\* Number of times Badger is started on the same destination.
MaxRuns == 2
\* opts.blurWorkers (runtime.NumCPU() - 1 in main) for the modelled host.
NumBlurWorkers == 2
\* opts.copyWorkers as modelled (main sets 10).
NumCopyWorkers == 2
\* The longest list of files handed to a single call of ListMedia or
\* ClusterMedia.
MaxFiles == 4

\* ------------------------------------------------------- program constants

\* --max-seconds-diff default
DefaultMaxSecondsDiff == 9
\* --min-points default
DefaultMinPoints == 2

\* ------------------------------------------------------------------- text

\* fmt.Sprint of an int: its decimal digits as character codes.
RECURSIVE Sprint(_)
Sprint(n) ==
    IF n < 0 THEN <<45>> \o Sprint(0 - n)
    ELSE IF n < 10 THEN <<48 + n>>
    ELSE Sprint(n \div 10) \o <<48 + (n % 10)>>

\* The character codes of the strings the model uses.
Chars(s) ==
    CASE s = "a" -> <<97>>
      [] s = "b" -> <<98>>
      [] s = "c" -> <<99>>
      [] s = "to" -> <<116, 111>>
      [] s = ".jpg" -> <<46, 106, 112, 103>>
      [] s = ".png" -> <<46, 112, 110, 103>>
      [] s = ".rw2" -> <<46, 114, 119, 50>>
      [] s = ".mp4" -> <<46, 109, 112, 52>>
      [] s = ".txt" -> <<46, 116, 120, 116>>
      [] s = "/" -> <<47>>
      [] s = "_" -> <<95>>

\* Byte-wise (lexical) order of two strings, as a file listing sorts names.
RECURSIVE LexLess(_, _)
LexLess(s, t) ==
    IF t = <<>> THEN FALSE
    ELSE IF s = <<>> THEN TRUE
    ELSE IF Head(s) # Head(t) THEN Head(s) < Head(t)
    ELSE LexLess(Tail(s), Tail(t))

\* ------------------------------------------------------------- media files

PHOTO == "photo"
RAW == "raw"
VIDEO == "video"
UNKNOWN == "unknown"

\* A source file: its basename prefix and extension (the source path is
\* prefix ++ ext), its capture time, the sharpness GetBlur computes from its
\* pixels, its size in bytes, and the per-file operation that fails on it
\* ("none": nothing fails).
File(prefix, ext, ctime, score, size, fault) ==
    [prefix |-> prefix, ext |-> ext, ctime |-> ctime, score |-> score, size |-> size,
     fault |-> fault]

\* The libraries a run is started on, in glob (sorted path) order.
\*   trivial burst: two photos 3 s apart and one a long time later
LibBurst == <<File("a", ".jpg", 0, 9, 2, "none"), File("b", ".jpg", 3, 10, 2, "none"),
              File("c", ".jpg", 200, 7, 2, "none")>>
\*   raw companion: a photo with its raw and a second photo as sharp as it
LibRaw == <<File("a", ".jpg", 0, 12, 2, "none"), File("a", ".rw2", 0, 0, 3, "none"),
            File("b", ".jpg", 3, 12, 2, "none")>>
\*   a raw taken long after its photo, and a raw that has no photo
LibNoise == <<File("a", ".jpg", 0, 5, 2, "none"), File("a", ".rw2", 100, 0, 3, "none"),
              File("b", ".rw2", 3, 0, 3, "none")>>
\*   a video in a photo burst
LibVideo == <<File("a", ".jpg", 0, 4, 2, "none"), File("a", ".mp4", 4, 0, 4, "none"),
              File("b", ".jpg", 200, 2, 2, "none")>>
\*   two photos and a raw that share one basename prefix
LibShared == <<File("a", ".jpg", 0, 3, 2, "none"), File("a", ".png", 1, 8, 2, "none"),
               File("a", ".rw2", 100, 0, 3, "none")>>
\*   a photo without EXIF data, with its raw, and an unknown file
LibNoExif == <<File("a", ".jpg", 0, 6, 2, "exif"), File("a", ".rw2", 0, 0, 3, "none"),
               File("b", ".txt", 2, 0, 1, "none")>>

\*   globs that match nothing, and one file only
LibNone == <<>>
LibOne == <<File("a", ".jpg", 0, 9, 2, "none")>>

Libraries == {LibBurst, LibRaw, LibNoise, LibVideo, LibNoExif}

\* GetType that does not know the raw extensions.
GetTypeNoRaw(ext) ==
    CASE ext \in {".jpg", ".jpeg", ".png"} -> PHOTO
      [] ext = ".mp4" -> VIDEO
      [] OTHER -> UNKNOWN

\* Media.GetType: the media type from the extension.
GetType(ext) ==
    CASE ext \in {".jpg", ".jpeg", ".png"} -> PHOTO
      [] ext \in {".rw2", ".raw"} -> RAW
      [] ext = ".mp4" -> VIDEO
      [] OTHER -> UNKNOWN

\* A Media value as it travels through the channels. src is the index of the
\* source file in the library (it stands for media.source); hash 0 is the
\* empty string (not loaded); info is whether exifData is cached.
Media(src, id, clusterId, blur) ==
    [src |-> src, id |-> id, clusterId |-> clusterId, blur |-> blur,
     copied |-> FALSE, hash |-> 0, info |-> FALSE]

\* Either[Media]: err = "nil" is no error.
Either(media, err) == [Value |-> media, Error |-> err]

\* -------------------------------------------------------------- enumeration

\* ListMedia that gives every descriptor the id 0.
ListMediaOneId(files) ==
    IF Len(files) = 0 THEN Either(<<>>, "nomatch")
    ELSE IF Len(files) = 1 THEN Either(<<>>, "onematch")
    ELSE Either([i \in 1..Len(files) |->
                    [src |-> i, id |-> 0, clusterId |-> 0, blur |-> 0]], "nil")

\* ListMedia that takes a single match for a library.
ListMediaAcceptsOne(files) ==
    IF Len(files) = 0 THEN Either(<<>>, "nomatch")
    ELSE Either([i \in 1..Len(files) |->
                    [src |-> i, id |-> i - 1, clusterId |-> 0, blur |-> 0]], "nil")

\* BadgerOpts.ListMedia on the paths the glob matches: an error and an empty
\* library for no match and for one match; otherwise one descriptor per
\* matched path (src is its place among the paths), id = its index in the
\* glob's result (0-based). The library keeps, per file, the fields the
\* scoring workers write through the pointers of GetByPrefix.
ListMedia(files) ==
    IF Len(files) = 0 THEN Either(<<>>, "nomatch")
    ELSE IF Len(files) = 1 THEN Either(<<>>, "onematch")
    ELSE Either([i \in 1..Len(files) |->
                    [src |-> i, id |-> i - 1, clusterId |-> 0, blur |-> 0]], "nil")

\* MediaList.GetByPrefix: the library files that share media's basename
\* prefix, in library order (the photo itself included).
GetByPrefix(files, src) ==
    LET same == {i \in 1..Len(files) : files[i].prefix = files[src].prefix}
        RECURSIVE Asc(_, _)
        Asc(i, acc) ==
            IF i > Len(files) THEN acc
            ELSE Asc(i + 1, IF i \in same THEN Append(acc, i) ELSE acc)
    IN  Asc(1, <<>>)

\* --------------------------------------------------------------- clustering

\* The file indices sorted by capture time (ties in library order).
SortByTime(files) ==
    LET Before(i, j) == \/ files[i].ctime < files[j].ctime
                        \/ files[i].ctime = files[j].ctime /\ i < j
        RECURSIVE Insert(_, _)
        Insert(sorted, i) ==
            IF sorted = <<>> THEN <<i>>
            ELSE IF Before(i, Head(sorted)) THEN <<i>> \o sorted
            ELSE <<Head(sorted)>> \o Insert(Tail(sorted), i)
        RECURSIVE Sort(_, _)
        Sort(k, acc) == IF k > Len(files) THEN acc ELSE Sort(k + 1, Insert(acc, k))
    IN  Sort(1, <<>>)

\* clusterer.Cluster(data) of go-dbscan on the points t (one dimension, in
\* the order they are scanned): the cluster of each point, -1 for noise. A
\* point is a core point when at least minPoints points (itself included) lie
\* within epsilon of it; an unlabelled core point starts the next cluster,
\* which takes every unlabelled point that is density-reachable from it.
DBSCAN(epsilon, minPoints, t) ==
    LET n == Len(t)
        Near(j, k) == t[j] - t[k] <= epsilon /\ t[k] - t[j] <= epsilon
        Core(k) == Cardinality({j \in 1..n : Near(j, k)}) >= minPoints
        RECURSIVE Expand(_, _)
        Expand(S, m) ==
            IF m = 0 THEN S
            ELSE Expand(S \cup {j \in 1..n : \E c \in S : Core(c) /\ Near(c, j)}, m - 1)
        RECURSIVE Scan(_, _, _)
        Scan(k, label, next) ==
            IF k > n THEN label
            ELSE IF label[k] # -1 \/ ~Core(k) THEN Scan(k + 1, label, next)
            ELSE LET reached == Expand({k}, n)
                 IN  Scan(k + 1,
                          [j \in 1..n |-> IF label[j] = -1 /\ j \in reached
                                          THEN next ELSE label[j]],
                          next + 1)
    IN  Scan(1, [j \in 1..n |-> -1], 0)

\* ClusterMedia on the library descriptors listed (files holds the file
\* behind each): the files are clustered along their creation time; the
\* clusters are numbered in the order the clusterer returns them (here: in
\* time order), and entries holds, cluster after cluster, a copy of each
\* clustered file stamped with its cluster id. Noise is in no cluster.
ClusterMedia(epsilon, minPoints, files, listed) ==
    LET n == Len(files)
        s == SortByTime(files)
        label == DBSCAN(epsilon, minPoints, [k \in 1..n |-> files[s[k]].ctime])
        count == Cardinality({label[k] : k \in 1..n} \ {-1})
        \* turn m visits cluster m \div n and sorted position (m % n) + 1
        RECURSIVE Entries(_, _)
        Entries(m, acc) ==
            IF m >= count * n THEN acc
            ELSE Entries(m + 1,
                    IF label[(m % n) + 1] = m \div n
                    THEN Append(acc, Media(listed[s[(m % n) + 1]].src,
                                           listed[s[(m % n) + 1]].id, m \div n,
                                           listed[s[(m % n) + 1]].blur))
                    ELSE acc)
    IN  [clusters |-> count, entries |-> Entries(0, <<>>)]

\* ------------------------------------------------------- destination naming

\* filepath.Join of two path elements.
Join(a, b) == a \o Chars("/") \o b

\* GetDestinationPath that leaves the score out when blur is 0 as well.
GetDestinationPathNoZero(files, media) ==
    LET root == Join(Chars("to"), Sprint(media.clusterId))
        ext == Chars(files[media.src].ext)
        name == IF media.blur <= 0
                THEN Sprint(media.id) \o ext
                ELSE Sprint(media.blur) \o Chars("_") \o Sprint(media.id) \o ext
    IN  Join(root, name)

\* Media.GetDestinationPath: <to>/<clusterId>/<blur>_<id><ext>, and
\* <to>/<clusterId>/<id><ext> when blur is -1.
GetDestinationPath(files, media) ==
    LET root == Join(Chars("to"), Sprint(media.clusterId))
        ext == Chars(files[media.src].ext)
        name == IF media.blur = -1
                THEN Sprint(media.id) \o ext
                ELSE Sprint(media.blur) \o Chars("_") \o Sprint(media.id) \o ext
    IN  Join(root, name)

\* Media.DestinationExists: os.Stat of the destination path succeeds.
DestinationExists(files, fs, media) ==
    \E f \in fs : f.path = GetDestinationPath(files, media)

\* ----------------------------------------------------------- metadata store

\* GetHash: the MD5 of the source bytes; version ver of file src has its own.
GetHash(src, ver) == 10 * src + ver

\* Media.GetBlur on the source bytes: the sharpness of version ver.
GetBlur(files, src, ver) == files[src].score + (ver - 1)

\* The table mediaData holds, for each source, the rows with that src in
\* insertion (rowid) order; every statement of the program selects by src.
\* BadgerDb.CreateTables: the table has no key, it starts without rows.
CreateTables(files) == [i \in 1..Len(files) |-> <<>>]

\* The row InsertMedia writes for media.
MediaRow(files, media) ==
    [src |-> media.src,
     dst |-> GetDestinationPath(files, media),
     hash |-> media.hash,
     id |-> media.id,
     clusterId |-> media.clusterId,
     blur |-> media.blur]

\* BadgerDb.InsertMedia: a plain INSERT of the media's row.
InsertMedia(files, rows, media) ==
    [rows EXCEPT ![media.src] = Append(@, MediaRow(files, media))]

\* InsertMedia fails when GetInformation does: a photo whose EXIF data is not
\* cached and cannot be decoded; or when the statement itself fails.
InsertFails(files, media) ==
    \/ files[media.src].fault = "insert"
    \/ /\ GetType(files[media.src].ext) = PHOTO
       /\ ~media.info
       /\ files[media.src].fault = "exif"

\* BadgerDb.GetMedia: SELECT ... WHERE src = ? scanned into a GetMediaRow;
\* QueryRow keeps the first row of the result, and no row leaves the zero value.
GetMedia(rows, src) ==
    IF rows[src] = <<>> THEN [src |-> 0, dst |-> <<>>, hash |-> 0, blur |-> 0]
    ELSE [src |-> rows[src][1].src, dst |-> rows[src][1].dst,
          hash |-> rows[src][1].hash, blur |-> rows[src][1].blur]

\* -------------------------------------------------------------------- state

VARIABLES
    library,      \* the source files the glob matches (fixed for a behaviour)
    opts,         \* BadgerOpts: maxSecondsDiff, minPoints, blurWorkers, copyWorkers
    srcVer,       \* the version of each source file's bytes
    dest,         \* the destination files: path, the bytes they hold, complete?
    dirs,         \* the burst directories that exist under <to>
    db,           \* the rows of mediaData
    run,          \* the number of runs started so far
    freeSpace,    \* the free space GetFreeSpace probes
    store,        \* the metadata store file exists under <to>
    phase,        \* "idle" (no process), "running", or "returned" (see Alive)
    exit,         \* how the last process ended: "none", "0", "panic", "killed"
    lib,          \* the shared library entries (id, clusterId, blur)
    clusters,     \* this run's MediaCluster: clusters and entries
    started,      \* the forwarding goroutine has called CalcuateBlur
    closed,       \* the channels that have been closed
    bar,          \* the ProgressBar of ProcessLibrary
    mediaChan,    \* CalcuateBlur's input channel
    blurResults,  \* CalcuateBlur's results channel
    copyJobs,     \* ProcessLibrary's copyJobs channel
    copyResults,  \* CopyFiles' results channel
    bw,           \* the scoring workers
    cw,           \* the replication workers
    copiedNow,    \* history: the sources byte-copied in this run
    skips,        \* history: the already-copied shortcuts taken in this run
    errSeen,      \* history: a worker produced an error in this run
    before,       \* history: the destination, the rows and the last exit
                  \* status when this run started
    preflight,    \* history: how the latest run got through validation,
                  \* listing, the space check and the prompt, and the answer
    call,         \* a call of one of the program's functions on its own
    ret           \* what that call returned, once it has

persistent == <<library, opts, srcVer, dest, dirs, db, run, freeSpace, store>>
process == <<phase, exit, lib, clusters, started, closed, bar>>
channels == <<mediaChan, blurResults, copyJobs, copyResults>>
workers == <<bw, cw>>
history == <<copiedNow, skips, errSeen, before, preflight>>
calls == <<call, ret>>
vars == <<persistent, process, channels, workers, history, calls>>

BlurWorkers == 1..NumBlurWorkers
CopyWorkers == 1..NumCopyWorkers

NoMedia == Media(0, 0, 0, 0)
NoClusters == [clusters |-> 0, entries |-> <<>>]
BlurIdle == [pc |-> "off", media |-> NoMedia, sibs |-> <<>>, err |-> "nil"]
CopyIdle == [pc |-> "off", media |-> NoMedia, out |-> <<>>, next |-> "recv", open |-> {}]

\* ---------------------------------------------------------------- pre-flight

\* ValidateOpts: --from and --to must not be empty.
ValidateOpts(o) ==
    IF o.from = "" THEN "from" ELSE IF o.to = "" THEN "to" ELSE "nil"

\* The sum of media.Size() over the library.
RECURSIVE TotalSize(_)
TotalSize(files) ==
    IF files = <<>> THEN 0 ELSE Head(files).size + TotalSize(Tail(files))

\* GatherFacts: the number of files, the sum of their sizes and the free space
\* GetFreeSpace probes (free); an error when the size of a file cannot be read.
\* GetFreeSpace: statfs of the path "/home/rg", whatever the destination is;
\* mounts gives the free space of the filesystem that holds each path.
GetFreeSpace(mounts) == mounts["/home/rg"]

\* The number of files of one media type.
KindCount(files, kind) ==
    Cardinality({i \in 1..Len(files) : GetType(files[i].ext) = kind})

GatherFacts(files, free) ==
    IF \E i \in 1..Len(files) : files[i].fault = "stat"
    THEN Either([Count |-> 0, Size |-> 0, FreeSpace |-> 0,
                 PhotoCount |-> 0, RawCount |-> 0, VideoCount |-> 0], "stat")
    ELSE Either([Count |-> Len(files), Size |-> TotalSize(files), FreeSpace |-> free,
                 PhotoCount |-> KindCount(files, PHOTO),
                 RawCount |-> KindCount(files, RAW),
                 VideoCount |-> KindCount(files, VIDEO)], "nil")

\* ------------------------------------------------------------ progress bar

\* NewProgressBar: count is the total of bytes to copy.
NewProgressBar(count, facts) ==
    [count |-> count, completed |-> 0, facts |-> facts,
     photoCount |-> 0, rawCount |-> 0, videoCount |-> 0]

\* No process, no progress bar.
NoBar == NewProgressBar(0, GatherFacts(<<>>, 0).Value)

\* ProgressBar.Render: counts the reported file under its media type and
\* prints the view.
Render(b, files, media) ==
    LET type == GetType(files[media.src].ext)
    IN  [b EXCEPT !.photoCount = IF type = PHOTO THEN @ + 1 ELSE @,
                  !.rawCount = IF type = RAW THEN @ + 1 ELSE @,
                  !.videoCount = IF type = VIDEO THEN @ + 1 ELSE @]

\* tmpl.Execute fails in Render while this file is reported.
RenderFails(files, media) == files[media.src].fault = "render"

\* ProgressBar.Update: adds the size of the reported file to the bytes
\* copied, then renders.
Update(b, files, media) ==
    Render([b EXCEPT !.completed = @ + files[media.src].size], files, media)

\* PromptCopy with the space check off by one: a library that fills the free
\* space exactly is rejected too.
PromptCopyFull(facts, yes, answer) ==
    IF facts.FreeSpace <= facts.Size THEN Either(FALSE, "nospace")
    ELSE IF yes THEN Either(TRUE, "nil")
    ELSE IF answer = "error" THEN Either(FALSE, "prompt")
    ELSE Either(answer = "yes", "nil")

\* PromptCopy that proceeds on any answer it can read.
PromptCopyAnyAnswer(facts, yes, answer) ==
    IF facts.FreeSpace < facts.Size THEN Either(FALSE, "nospace")
    ELSE IF yes THEN Either(TRUE, "nil")
    ELSE IF answer = "error" THEN Either(FALSE, "prompt")
    ELSE Either(TRUE, "nil")

\* PromptCopy: an error when the free space is less than the size of the
\* library; proceed without asking under --yes; otherwise the answer of the
\* prompt decides ("error": the prompt could not be read).
PromptCopy(facts, yes, answer) ==
    IF facts.FreeSpace < facts.Size THEN Either(FALSE, "nospace")
    ELSE IF yes THEN Either(TRUE, "nil")
    ELSE IF answer = "error" THEN Either(FALSE, "prompt")
    ELSE Either(answer = "yes", "nil")

\* What the prompt can return.
Answers == {"yes", "no", "error"}

\* A run: the files the --from glob matches, the options and the free space.
\* By default the options are valid, --yes is given and there is room for
\* one byte more than the library.
Run(files, minPoints) ==
    [files |-> files, from |-> "glob", to |-> "to", minPoints |-> minPoints,
     yes |-> TRUE, freeSpace |-> TotalSize(files) + 1]

\* The state before the first run r, with the workers of the run.
Start(r, blurWorkers, copyWorkers) ==
    /\ library = r.files
    /\ opts = [from |-> r.from, to |-> r.to,
               maxSecondsDiff |-> DefaultMaxSecondsDiff, minPoints |-> r.minPoints,
               yes |-> r.yes, blurWorkers |-> blurWorkers, copyWorkers |-> copyWorkers]
    /\ freeSpace = r.freeSpace
    /\ store = FALSE
    /\ preflight = [verdict |-> "none", answer |-> "none"]
    /\ srcVer = [i \in 1..Len(library) |-> 1]
    /\ dest = {}
    /\ dirs = {}
    /\ db = CreateTables(library)
    /\ run = 0
    /\ phase = "idle"
    /\ exit = "none"
    /\ lib = ListMedia(library).Value
    /\ clusters = NoClusters
    /\ started = FALSE
    /\ closed = {}
    /\ bar = NoBar
    /\ mediaChan = <<>>
    /\ blurResults = <<>>
    /\ copyJobs = <<>>
    /\ copyResults = <<>>
    /\ bw = [w \in BlurWorkers |-> BlurIdle]
    /\ cw = [c \in CopyWorkers |-> CopyIdle]
    /\ copiedNow = {}
    /\ skips = {}
    /\ errSeen = FALSE
    /\ before = [dest |-> {}, dirs |-> {}, db |-> CreateTables(library),
                 store |-> FALSE, exit |-> "none"]

\* The runs checked: every library with the documented opts.minPoints, and
\* two of them with the zero value that main leaves in opts.minPoints;
\* globs that match too little; empty options; free space one byte short of
\* the library and just enough for it; and a run without --yes.
Runs ==
    {Run(files, DefaultMinPoints) : files \in Libraries}
    \cup {Run(files, 0) : files \in {LibBurst, LibNoise}}
    \cup {Run(files, DefaultMinPoints) : files \in {LibNone, LibOne}}
    \cup {[Run(LibBurst, DefaultMinPoints) EXCEPT !.from = ""],
          [Run(LibBurst, DefaultMinPoints) EXCEPT !.to = ""]}
    \cup {[Run(LibBurst, DefaultMinPoints) EXCEPT !.freeSpace = TotalSize(LibBurst) - 1],
          [Run(LibBurst, DefaultMinPoints) EXCEPT !.freeSpace = TotalSize(LibBurst)]}
    \cup {[Run(LibNoise, DefaultMinPoints) EXCEPT !.yes = FALSE]}

\* No function is called on its own.
NoReturn == [done |-> FALSE]
NoCall == call = [fn |-> "none"] /\ ret = NoReturn

Init ==
    /\ \E r \in Runs : Start(r, NumBlurWorkers, NumCopyWorkers)
    /\ NoCall

\* The goroutines of the process run: ProcessLibrary is at work, or it has
\* returned an error (its deferred db.db.Close() done) and the panic of bail
\* has not yet ended the process. Nothing cancels the workers.
Alive == phase \in {"running", "returned"}

\* The exit status of a process that ended by os.Exit(0) or by the panic of
\* bail (the Go runtime ends a panicking program with status 2); a process
\* ended by a signal has none (-1).
ExitStatus(how) ==
    CASE how = "0" -> 0
      [] how = "panic" -> 2
      [] OTHER -> -1

\* The process ends (os.Exit, a panic, a signal): its goroutines, channels and
\* library are gone; the destination and the metadata store stay as they are.
ProcessEnds(how) ==
    /\ phase' = "idle"
    /\ exit' = how
    /\ lib' = ListMedia(library).Value
    /\ clusters' = NoClusters
    /\ started' = FALSE
    /\ closed' = {}
    /\ bar' = NoBar
    /\ mediaChan' = <<>>
    /\ blurResults' = <<>>
    /\ copyJobs' = <<>>
    /\ copyResults' = <<>>
    /\ bw' = [w \in BlurWorkers |-> BlurIdle]
    /\ cw' = [c \in CopyWorkers |-> CopyIdle]

\* The capacity of mediaChan, CalcuateBlur's results and copyJobs.
Capacity == Len(clusters.entries)

\* MakeFolders that leaves out the directory of the last burst.
MakeFoldersShort(n) == 0..(n - 2)

\* MakeFolders: <to>/0 .. <to>/(clusters - 1).
MakeFolders(n) == 0..(n - 1)

\* main and Badger up to the result loop of ProcessLibrary. main validates
\* the options; Badger lists the media, gathers the facts, clusters and asks
\* whether to proceed: an error at any of these makes bail panic, and "no"
\* ends the process with status 0. Otherwise ProcessLibrary makes the burst
\* folders, opens the store and starts the forwarding goroutine and the
\* replication workers.
Badger ==
    /\ phase = "idle"
    /\ run < MaxRuns
    /\ run' = run + 1
    /\ copiedNow' = {}
    /\ skips' = {}
    /\ errSeen' = FALSE
    /\ before' = [dest |-> dest, dirs |-> dirs, db |-> db, store |-> store, exit |-> exit]
    /\ \E answer \in Answers :
        LET listed == ListMedia(library)
            facts == GatherFacts(library, freeSpace)
            proceed == PromptCopy(facts.Value, opts.yes, answer)
            asked == IF opts.yes THEN "none" ELSE answer
            Bails(verdict, given) ==
                /\ ProcessEnds("panic")
                /\ preflight' = [verdict |-> verdict, answer |-> given]
                /\ UNCHANGED <<dirs, store>>
        IN  IF ValidateOpts(opts) # "nil" THEN Bails("invalid", "none")
            ELSE IF listed.Error # "nil" THEN Bails("nomatch", "none")
            ELSE IF facts.Error # "nil" THEN Bails("facts", "none")
            ELSE IF proceed.Error = "nospace" THEN Bails("nospace", "none")
            ELSE IF proceed.Error # "nil" THEN Bails("prompt", asked)
            ELSE IF ~proceed.Value
            THEN /\ ProcessEnds("0")
                 /\ preflight' = [verdict |-> "declined", answer |-> asked]
                 /\ UNCHANGED <<dirs, store>>
            ELSE /\ phase' = "running"
                 /\ exit' = "none"
                 /\ lib' = listed.Value
                 /\ clusters' = ClusterMedia(opts.maxSecondsDiff, opts.minPoints, library,
                                              listed.Value)
                 /\ dirs' = dirs \cup MakeFolders(clusters'.clusters)
                 /\ store' = TRUE
                 /\ bar' = NewProgressBar(facts.Value.Size, facts.Value)
                 /\ cw' = [c \in CopyWorkers |->
                             IF c <= opts.copyWorkers
                             THEN [CopyIdle EXCEPT !.pc = "recv"] ELSE CopyIdle]
                 /\ preflight' = [verdict |-> "proceed", answer |-> asked]
                 /\ UNCHANGED <<started, closed, channels, bw>>
    /\ UNCHANGED <<library, opts, srcVer, dest, db, freeSpace, calls>>

\* CalcuateBlur, called by the forwarding goroutine: start the scoring workers,
\* put every clustered entry on mediaChan and close it on return.
CalcuateBlur ==
    /\ Alive
    /\ ~started
    /\ started' = TRUE
    /\ bw' = [w \in BlurWorkers |->
                IF w <= opts.blurWorkers THEN [BlurIdle EXCEPT !.pc = "recv"] ELSE BlurIdle]
    /\ mediaChan' = clusters.entries
    /\ closed' = closed \cup {"mediaChan"}
    /\ UNCHANGED <<persistent, phase, exit, lib, clusters, bar, blurResults, copyJobs,
                   copyResults, cw, history, calls>>

\* ------------------------------------------------------------ scoring stage

\* The score CalcuateBlur gives a photo: the stored row's blur, or a fresh
\* GetBlur when the stored blur is not positive.
ScoreOf(rows, src, ver) ==
    LET row == GetMedia(rows, src)
    IN  IF row.blur <= 0 THEN GetBlur(library, src, ver) ELSE row.blur

\* A scoring worker takes the next media from mediaChan (and leaves its loop
\* when the channel is closed and drained). Videos and unknown files go on
\* as they are; raws are skipped; a photo gets its score.
BlurRecv(w) ==
    /\ Alive
    /\ bw[w].pc = "recv"
    /\ IF mediaChan = <<>>
       THEN /\ "mediaChan" \in closed
            /\ bw' = [bw EXCEPT ![w].pc = "done"]
            /\ UNCHANGED <<process, channels, cw, errSeen>>
       ELSE LET media == Head(mediaChan)
                file == library[media.src]
                type == GetType(file.ext)
                fresh == GetMedia(db, media.src).blur <= 0
                Taken == /\ mediaChan' = Tail(mediaChan)
                         /\ UNCHANGED <<process, blurResults, copyJobs, copyResults, cw>>
            IN  IF type \in {UNKNOWN, VIDEO}
                THEN /\ bw' = [bw EXCEPT ![w].pc = "fwd", ![w].media = media]
                     /\ Taken
                     /\ UNCHANGED errSeen
                ELSE IF type # PHOTO
                THEN /\ Taken
                     /\ UNCHANGED <<bw, errSeen>>
                ELSE IF phase = "returned"
                THEN \* db.GetMedia fails on the closed store
                     /\ bw' = [bw EXCEPT ![w].pc = "fwd", ![w].media = media,
                                         ![w].err = "closed"]
                     /\ Taken
                     /\ errSeen' = TRUE
                ELSE IF fresh /\ file.fault = "decode"
                THEN \* imgio.ImreadGray fails: GetBlur panics
                     /\ ProcessEnds("panic")
                     /\ UNCHANGED errSeen
                ELSE IF fresh /\ file.fault = "laplacian"
                THEN /\ bw' = [bw EXCEPT ![w].pc = "fwd", ![w].media = media,
                                         ![w].err = "laplacian"]
                     /\ Taken
                     /\ errSeen' = TRUE
                ELSE /\ bw' = [bw EXCEPT
                            ![w].pc = "emit",
                            ![w].media = [media EXCEPT
                                !.blur = ScoreOf(db, media.src, srcVer[media.src])],
                            ![w].sibs = GetByPrefix(library, media.src)]
                     /\ Taken
                     /\ UNCHANGED errSeen
    /\ UNCHANGED <<persistent, copiedNow, skips, before, preflight, calls>>

\* results <- Either[Media]{media, err} for a video, an unknown file or an
\* error: it waits while the channel is full.
BlurForward(w) ==
    /\ Alive
    /\ bw[w].pc = "fwd"
    /\ Len(blurResults) < Capacity
    /\ blurResults' = Append(blurResults, Either(bw[w].media, bw[w].err))
    /\ bw' = [bw EXCEPT ![w].pc = "recv", ![w].err = "nil"]
    /\ UNCHANGED <<persistent, process, mediaChan, copyJobs, copyResults, cw, history, calls>>

\* The values a read of field f of the shared entry i can return to worker w
\* after w wrote v: v, or what another worker that is at the same entry
\* writes there at the same time (the writes are not synchronised).
Racing(w, i, f, v) ==
    {v} \cup {bw[o].media[f] : o \in {x \in BlurWorkers :
                 x # w /\ bw[x].pc = "emit" /\ Head(bw[x].sibs) = i}}

\* One turn of the loop over GetByPrefix: shared.id, shared.clusterId and
\* shared.blur are set from the photo through the library's pointer, and a
\* copy of *shared goes to results (it waits while the channel is full).
BlurEmit(w) ==
    /\ Alive
    /\ bw[w].pc = "emit"
    /\ Len(blurResults) < Capacity
    /\ LET i == Head(bw[w].sibs)
           media == bw[w].media
       IN  /\ lib' = [lib EXCEPT ![i] = [src |-> i,
                                         id |-> media.id,
                                         clusterId |-> media.clusterId,
                                         blur |-> media.blur]]
           /\ \E id \in Racing(w, i, "id", media.id),
                 clusterId \in Racing(w, i, "clusterId", media.clusterId),
                 blur \in Racing(w, i, "blur", media.blur) :
                blurResults' = Append(blurResults,
                                      Either(Media(i, id, clusterId, blur), "nil"))
    /\ bw' = [bw EXCEPT ![w].pc = IF Tail(bw[w].sibs) = <<>> THEN "recv" ELSE "emit",
                        ![w].sibs = Tail(bw[w].sibs)]
    /\ UNCHANGED <<persistent, phase, exit, clusters, started, closed, bar, mediaChan,
                   copyJobs, copyResults, cw, history, calls>>

\* The forwarding goroutine of ProcessLibrary: copyJobs <- blurRes for each
\* result of CalcuateBlur, and close(copyJobs) once that channel is closed.
Forward ==
    /\ Alive
    /\ started
    /\ IF blurResults # <<>>
       THEN /\ Len(copyJobs) < Capacity
            /\ copyJobs' = Append(copyJobs, Head(blurResults))
            /\ blurResults' = Tail(blurResults)
            /\ UNCHANGED closed
       ELSE /\ "blurResults" \in closed
            /\ "copyJobs" \notin closed
            /\ closed' = closed \cup {"copyJobs"}
            /\ UNCHANGED <<blurResults, copyJobs>>
    /\ UNCHANGED <<persistent, phase, exit, lib, clusters, started, bar, mediaChan,
                   copyResults, workers, history, calls>>

\* -------------------------------------------------------- replication stage

\* What fails before the destination file is written, in the order CopyFiles
\* tries: LoadInformation (the hash, the EXIF data of a photo), os.Stat, the
\* regular-file test, os.Open, os.Create (also when the burst folder is missing).
CreateError(media) ==
    LET fault == library[media.src].fault
    IN  IF fault = "hash" THEN "hash"
        ELSE IF fault = "exif" /\ GetType(library[media.src].ext) = PHOTO THEN "exif"
        ELSE IF fault \in {"stat", "irregular", "open"} THEN fault
        ELSE IF fault = "create" \/ media.clusterId \notin dirs THEN "create"
        ELSE "nil"

\* A destination file: its path, the source and version its bytes come from,
\* whether all the bytes are there, and the burst, score and sequence id its
\* name was made of.
Written(path, media, ver, done) ==
    [path |-> path, src |-> media.src, ver |-> ver, done |-> done,
     clusterId |-> media.clusterId, blur |-> media.blur, id |-> media.id]

\* os.Create: the file at path, empty (an existing file is truncated), which
\* will receive the bytes of media's source.
Create(fs, path, media, ver) ==
    {f \in fs : f.path # path} \cup {Written(path, media, ver, FALSE)}

\* io.Copy to the end: the file at path holds all the bytes of the source.
Copy(fs, path, media, ver) ==
    {f \in fs : f.path # path} \cup {Written(path, media, ver, TRUE)}

\* results <- msgs[1], results <- msgs[2], ...; then on to pc next. A send
\* into a channel with room is part of the step; the worker waits in "send"
\* with what is left when the channel is full. fds are the file handles
\* ("source", "dest") the worker has opened for the message and not closed.
Results(c, media, msgs, next, fds) ==
    LET room == opts.copyWorkers - Len(copyResults)
        n == IF Len(msgs) < room THEN Len(msgs) ELSE room
    IN  /\ copyResults' = copyResults \o SubSeq(msgs, 1, n)
        /\ cw' = [cw EXCEPT ![c].media = media,
                            ![c].out = SubSeq(msgs, n + 1, Len(msgs)),
                            ![c].next = next,
                            ![c].open = fds,
                            ![c].pc = IF n = Len(msgs) THEN next ELSE "send"]

\* Whether CopyFiles takes the already-copied shortcut for media.
AlreadyCopied(media) == DestinationExists(library, dest, media)

\* A replication worker takes the next pair from copyJobs (and leaves its loop
\* when the channel is closed and drained). It passes an error on and marks
\* the media copied when its destination exists. Otherwise: LoadInformation,
\* os.Stat, os.Open and os.Create; an error goes to results; after a failed
\* os.Open the worker returns; after a failed os.Create it goes on to io.Copy,
\* which fails on the nil file and reports a second error.
CopyRecv(c) ==
    /\ Alive
    /\ cw[c].pc = "recv"
    /\ IF copyJobs = <<>>
       THEN /\ "copyJobs" \in closed
            /\ cw' = [cw EXCEPT ![c].pc = "done"]
            /\ UNCHANGED <<copyJobs, copyResults, dest, skips, errSeen>>
       ELSE LET pair == Head(copyJobs)
                media == pair.Value
                ver == srcVer[media.src]
                err == CreateError(media)
                loaded == [media EXCEPT
                             !.hash = GetHash(media.src, ver),
                             !.info = GetType(library[media.src].ext) = PHOTO]
                hashed == [media EXCEPT
                             !.hash = IF err = "hash" THEN 0 ELSE GetHash(media.src, ver)]
                done == [media EXCEPT !.copied = TRUE]
            IN  /\ copyJobs' = Tail(copyJobs)
                /\ IF pair.Error # "nil"
                   THEN /\ Results(c, media, <<pair>>, "recv", {})
                        /\ UNCHANGED <<dest, skips, errSeen>>
                   ELSE IF AlreadyCopied(media)
                   THEN /\ Results(c, done, <<Either(done, "nil")>>, "recv", {})
                        /\ skips' = skips \cup
                               {[src |-> media.src,
                                 path |-> GetDestinationPath(library, media),
                                 stored |-> {db[media.src][k].hash :
                                                k \in 1..Len(db[media.src])},
                                 hash |-> GetHash(media.src, ver)]}
                        /\ UNCHANGED <<dest, errSeen>>
                   ELSE IF err \in {"hash", "exif"}
                   THEN /\ Results(c, hashed, <<Either(hashed, err)>>, "recv", {})
                        /\ errSeen' = TRUE
                        /\ UNCHANGED <<dest, skips>>
                   ELSE IF err \in {"stat", "irregular", "open"}
                   THEN /\ Results(c, loaded, <<Either(loaded, err)>>,
                                   IF err = "open" THEN "done" ELSE "recv", {})
                        /\ errSeen' = TRUE
                        /\ UNCHANGED <<dest, skips>>
                   ELSE IF err = "create"
                   THEN /\ Results(c, loaded, <<Either(loaded, "create"),
                                                Either(loaded, "copy")>>, "recv",
                                   {"source"})
                        /\ errSeen' = TRUE
                        /\ UNCHANGED <<dest, skips>>
                   ELSE /\ cw' = [cw EXCEPT ![c].pc = "copy", ![c].media = loaded,
                                            ![c].open = {"source", "dest"}]
                        /\ dest' = Create(dest, GetDestinationPath(library, media),
                                          media, ver)
                        /\ UNCHANGED <<copyResults, skips, errSeen>>
    /\ UNCHANGED <<library, opts, srcVer, dirs, db, run, freeSpace, store, process, mediaChan, blurResults,
                   bw, copiedNow, before, preflight, calls>>

\* io.Copy, source.Close and dest.Close; an error of io.Copy goes to results
\* with both files left open.
CopyBytes(c) ==
    /\ Alive
    /\ cw[c].pc = "copy"
    /\ LET media == cw[c].media
           fault == library[media.src].fault
       IN  IF fault = "copy"
           THEN /\ Results(c, media, <<Either(media, "copy")>>, "recv", cw[c].open)
                /\ errSeen' = TRUE
                /\ UNCHANGED <<dest, copiedNow>>
           ELSE /\ dest' = Copy(dest, GetDestinationPath(library, media), media,
                                srcVer[media.src])
                /\ copiedNow' = copiedNow \cup {media.src}
                /\ IF fault = "close"
                   THEN \* source.Close fails: dest.Close is not reached
                        /\ Results(c, media, <<Either(media, "close")>>, "recv",
                                   {"dest"})
                        /\ errSeen' = TRUE
                   ELSE /\ cw' = [cw EXCEPT ![c].pc = "insert", ![c].open = {}]
                        /\ UNCHANGED <<copyResults, errSeen>>
    /\ UNCHANGED <<library, opts, srcVer, dirs, db, run, freeSpace, store, process, mediaChan, blurResults,
                   copyJobs, bw, skips, before, preflight, calls>>

\* media.copied = true, db.InsertMedia(&media) and the result.
CopyInsert(c) ==
    /\ Alive
    /\ cw[c].pc = "insert"
    /\ LET media == [cw[c].media EXCEPT !.copied = TRUE]
       IN  IF InsertFails(library, media) \/ phase = "returned"
           THEN /\ Results(c, media, <<Either(media, "insert")>>, "recv", {})
                /\ errSeen' = TRUE
                /\ UNCHANGED db
           ELSE /\ Results(c, media, <<Either(media, "nil")>>, "recv", {})
                /\ db' = InsertMedia(library, db, media)
                /\ UNCHANGED errSeen
    /\ UNCHANGED <<library, opts, srcVer, dest, dirs, run, freeSpace, store, process, mediaChan, blurResults,
                   copyJobs, bw, copiedNow, skips, before, preflight, calls>>

\* A worker that waits to send gets room in results.
CopySend(c) ==
    /\ Alive
    /\ cw[c].pc = "send"
    /\ Len(copyResults) < opts.copyWorkers
    /\ Results(c, cw[c].media, cw[c].out, cw[c].next, cw[c].open)
    /\ UNCHANGED <<persistent, process, mediaChan, blurResults, copyJobs, bw, history, calls>>

\* ------------------------------------------------------------- orchestrator

\* The result loop of ProcessLibrary: an error result is returned (the
\* deferred Close shuts the store); a good result is inserted into the store
\* once more; the loop ends when results is closed and drained.
Orchestrate ==
    /\ phase = "running"
    /\ IF copyResults = <<>>
       THEN /\ "copyResults" \in closed
            /\ ProcessEnds("0")
            /\ UNCHANGED db
       ELSE LET copyRes == Head(copyResults)
                media == copyRes.Value
            IN  IF ~media.copied /\ copyRes.Error = "nil"
                THEN \* panic("bailed!")
                     /\ ProcessEnds("panic")
                     /\ UNCHANGED db
                ELSE IF copyRes.Error # "nil"
                THEN \* return err
                     /\ phase' = "returned"
                     /\ copyResults' = Tail(copyResults)
                     /\ UNCHANGED <<db, exit, lib, clusters, started, closed, bar,
                                    mediaChan, blurResults, copyJobs, workers>>
                ELSE IF RenderFails(library, media)
                THEN \* bar.Update: panic(err)
                     /\ ProcessEnds("panic")
                     /\ UNCHANGED db
                ELSE IF InsertFails(library, media)
                THEN \* bar.Update, then return err
                     /\ bar' = Update(bar, library, media)
                     /\ phase' = "returned"
                     /\ copyResults' = Tail(copyResults)
                     /\ UNCHANGED <<db, exit, lib, clusters, started, closed,
                                    mediaChan, blurResults, copyJobs, workers>>
                ELSE /\ bar' = Update(bar, library, media)
                     /\ db' = InsertMedia(library, db, media)
                     /\ copyResults' = Tail(copyResults)
                     /\ UNCHANGED <<phase, exit, lib, clusters, started, closed,
                                    mediaChan, blurResults, copyJobs, workers>>
    /\ UNCHANGED <<library, opts, srcVer, dest, dirs, run, freeSpace, store, copiedNow, skips, errSeen,
                   before, preflight, calls>>

\* Badger's bail on the error ProcessLibrary returned: the panic ends the
\* process, whatever its workers are doing.
Bail ==
    /\ phase = "returned"
    /\ ProcessEnds("panic")
    /\ UNCHANGED <<persistent, history, calls>>

\* Every goroutine of the process waits on a channel that holds nothing and
\* nothing is left to do: the process hangs.
Hung ==
    /\ phase = "running"
    /\ started
    /\ mediaChan = <<>> /\ blurResults = <<>> /\ copyJobs = <<>> /\ copyResults = <<>>
    /\ \A w \in BlurWorkers : bw[w].pc \in {"done", "off"}
    /\ \A c \in CopyWorkers : cw[c].pc \in {"recv", "done", "off"}
    /\ "copyResults" \notin closed

\* The user interrupts a process that hangs.
Interrupt ==
    /\ Hung
    /\ ProcessEnds("killed")
    /\ UNCHANGED <<persistent, history, calls>>

\* Between two runs, a source file is edited: its bytes change.
ModifySource(i) ==
    /\ phase = "idle"
    /\ run >= 1
    /\ run < MaxRuns
    /\ \A j \in 1..Len(library) : srcVer[j] = 1
    /\ srcVer' = [srcVer EXCEPT ![i] = 2]
    /\ UNCHANGED <<library, opts, dest, dirs, db, run, freeSpace, store, process, channels, workers, history, calls>>

Next ==
    \/ Badger
    \/ CalcuateBlur
    \/ \E w \in BlurWorkers : BlurRecv(w)
    \/ \E w \in BlurWorkers : BlurForward(w)
    \/ \E w \in BlurWorkers : BlurEmit(w)
    \/ Forward
    \/ \E c \in CopyWorkers : CopyRecv(c)
    \/ \E c \in CopyWorkers : CopyBytes(c)
    \/ \E c \in CopyWorkers : CopyInsert(c)
    \/ \E c \in CopyWorkers : CopySend(c)
    \/ Orchestrate
    \/ Bail
    \/ Interrupt
    \/ \E i \in 1..Len(library) : ModifySource(i)

Spec == Init /\ [][Next]_vars

\* One run on a library in which two photos share a basename prefix, with
\* two scoring workers and one replication worker.
InitShared == Start(Run(LibShared, DefaultMinPoints), NumBlurWorkers, 1) /\ NoCall

NextShared ==
    \/ Badger
    \/ CalcuateBlur
    \/ \E w \in BlurWorkers : BlurRecv(w)
    \/ \E w \in BlurWorkers : BlurEmit(w)
    \/ Forward
    \/ \E c \in CopyWorkers : CopyRecv(c)
    \/ \E c \in CopyWorkers : CopyBytes(c)
    \/ \E c \in CopyWorkers : CopyInsert(c)
    \/ \E c \in CopyWorkers : CopySend(c)
    \/ Orchestrate

SpecShared == InitShared /\ [][NextShared]_vars

\* What can fail on a file: reading its bytes for the hash, os.Stat, the
\* regular-file test, os.Open, os.Create of its destination, io.Copy, Close,
\* the INSERT of its row, decoding its EXIF data, decoding its pixels, the
\* Laplacian filter, printing the progress view that reports it.
Faults == {"none", "hash", "stat", "irregular", "open", "create", "copy", "close",
           "insert", "exif", "decode", "laplacian", "render"}

\* A burst of two photos; fault fails on the first.
LibFault(fault) ==
    <<File("a", ".jpg", 0, 9, 2, fault), File("b", ".jpg", 3, 10, 2, "none")>>

\* Runs on a library with one file that fails.
InitFaults ==
    /\ \E fault \in Faults :
          Start(Run(LibFault(fault), DefaultMinPoints), NumBlurWorkers, NumCopyWorkers)
    /\ NoCall

SpecFaults == InitFaults /\ [][Next]_vars

\* ------------------------------------------------------------ single calls

\* The functions below are also run on their own, one call per behaviour,
\* over every argument in a bounded set.

\* Files a glob can match, in sorted path order.
Pool == <<File("a", ".jpg", 0, 9, 2, "none"), File("a", ".rw2", 0, 0, 3, "none"),
          File("b", ".jpg", 0, 4, 2, "none"), File("b", ".mp4", 0, 0, 4, "none"),
          File("c", ".jpg", 0, 7, 2, "none"), File("c", ".rw2", 0, 0, 3, "none")>>

\* The files of Pool at the places in S, in Pool's order.
Pick(S) ==
    LET RECURSIVE Asc(_, _)
        Asc(i, acc) ==
            IF i > Len(Pool) THEN acc
            ELSE Asc(i + 1, IF i \in S THEN Append(acc, Pool[i]) ELSE acc)
    IN  Asc(1, <<>>)

\* The first files of Pool, taken at the creation times t.
Shots(t) == [k \in 1..Len(t) |-> [Pool[k] EXCEPT !.ctime = t[k]]]

\* Creation times: gaps of 1, of epsilon and of epsilon + 1 for the default.
Times == {0, DefaultMaxSecondsDiff, DefaultMaxSecondsDiff + 1,
          2 * DefaultMaxSecondsDiff + 1, 3 * DefaultMaxSecondsDiff + 2}
Epsilons == {1, DefaultMaxSecondsDiff}
MinPoints == {0, 1, DefaultMinPoints, 3}

\* The fields of a Media that GetDestinationPath reads.
Ids == {0, 7, 12}
ClusterIds == {0, 3, 10}
Blurs == {-1, 0, 7, 12, 120}

\* main, for the cluster command: the BadgerOpts literal built from the parsed
\* command line (docopt has filled in the defaults of absent options) on a
\* host with args.cpus logical CPUs (runtime.NumCPU()).
\* minPoints is not in the literal: it keeps Go's zero value.
BadgerOpts(args) ==
    [from |-> args.from, to |-> args.to, maxSecondsDiff |-> args.maxSecondsDiff,
     minPoints |-> 0, yes |-> args.yes, blurWorkers |-> args.cpus - 1,
     copyWorkers |-> 10]

\* The parsed command lines: --max-seconds-diff and --min-points given or left
\* at their defaults; and the number of logical CPUs of the host.
Args ==
    [from : {"glob"}, to : {"to"}, yes : BOOLEAN,
     maxSecondsDiff : {1, DefaultMaxSecondsDiff, 20},
     minPoints : {1, DefaultMinPoints, 3},
     cpus : {1, 2, 4}]

ListMediaCalls ==
    {[fn |-> "ListMedia", files |-> Pick(S)] : S \in SUBSET (1..MaxFiles)}
ClusterMediaCalls ==
    {[fn |-> "ClusterMedia", epsilon |-> e, minPoints |-> m, files |-> Shots(t)] :
        e \in Epsilons, m \in MinPoints, t \in UNION {[1..n -> Times] : n \in 2..MaxFiles}}
GetDestinationPathCalls ==
    {[fn |-> "GetDestinationPath", files |-> Pick(1..MaxFiles),
      media |-> Media(src, id, clusterId, blur)] :
        src \in 1..MaxFiles, id \in Ids, clusterId \in ClusterIds, blur \in Blurs}
MainCalls == {[fn |-> "main", args |-> args] : args \in Args}

\* Free space, in bytes, of a filesystem: none, less than and more than the
\* largest library of Pool.
FreeSpaces == {0, 6, 12}
PromptCopyCalls ==
    {[fn |-> "PromptCopy", files |-> Pick(S), to |-> "to", mounts |-> m] :
        S \in SUBSET (1..MaxFiles), m \in [{"/home/rg", "to"} -> FreeSpaces]}

Return(value) == [done |-> TRUE, value |-> value]

InitCalls ==
    /\ Start(Run(LibBurst, DefaultMinPoints), NumBlurWorkers, NumCopyWorkers)
    /\ call \in ListMediaCalls \cup ClusterMediaCalls \cup GetDestinationPathCalls
                \cup MainCalls \cup PromptCopyCalls
    /\ ret = NoReturn

CallListMedia ==
    /\ call.fn = "ListMedia" /\ ~ret.done
    /\ ret' = Return(ListMedia(call.files))
    /\ UNCHANGED <<persistent, process, channels, workers, history, call>>

CallClusterMedia ==
    /\ call.fn = "ClusterMedia" /\ ~ret.done
    /\ ret' = Return(ClusterMedia(call.epsilon, call.minPoints, call.files,
                                  ListMedia(call.files).Value))
    /\ UNCHANGED <<persistent, process, channels, workers, history, call>>

CallGetDestinationPath ==
    /\ call.fn = "GetDestinationPath" /\ ~ret.done
    /\ ret' = Return(GetDestinationPath(call.files, call.media))
    /\ UNCHANGED <<persistent, process, channels, workers, history, call>>

CallMain ==
    /\ call.fn = "main" /\ ~ret.done
    /\ ret' = Return(BadgerOpts(call.args))
    /\ UNCHANGED <<persistent, process, channels, workers, history, call>>

\* The pre-flight check of Badger with --yes: GatherFacts, then PromptCopy.
CallPromptCopy ==
    /\ call.fn = "PromptCopy" /\ ~ret.done
    /\ LET facts == GatherFacts(call.files, GetFreeSpace(call.mounts))
       IN  ret' = Return(IF facts.Error # "nil" THEN Either(FALSE, facts.Error)
                         ELSE PromptCopy(facts.Value, TRUE, "none"))
    /\ UNCHANGED <<persistent, process, channels, workers, history, call>>

NextCalls ==
    \/ CallListMedia
    \/ CallClusterMedia
    \/ CallGetDestinationPath
    \/ CallMain
    \/ CallPromptCopy

SpecCalls == InitCalls /\ [][NextCalls]_vars

\* ------------------------------------------------------------------ claims

\* The media type of library file i.
TypeOf(i) == GetType(library[i].ext)

\* The clustered files of the library: the sources of the cluster's entries.
Clustered ==
    LET entries == ClusterMedia(opts.maxSecondsDiff, opts.minPoints, library,
                               ListMedia(library).Value).entries
    IN  {entries[k].src : k \in 1..Len(entries)}

\* A run is over: its process has ended, or it hangs with nothing left to do.
RunOver == run >= 1 /\ (phase = "idle" \/ Hung)

\* C1: a run in which no file produced an error comes to its end with status
\* 0: it never gets to a state where every goroutine waits on an empty
\* channel that nothing will close.
ProcessLibraryReturns == ~(Hung /\ ~errSeen)

\* C2: a second run on unchanged sources, after a first run that replicated
\* every eligible descriptor, copies no bytes and leaves the destination files
\* and the rows of the metadata store as the first run left them.
SecondRunChangesNothing ==
    (/\ run = 2
     /\ before.exit = "killed"
     /\ \A i \in 1..Len(library) : srcVer[i] = 1)
    => /\ copiedNow = {}
       /\ dest = before.dest
       /\ db = before.db

\* C3: a descriptor takes the already-copied shortcut only if the metadata
\* store holds a row for its source whose hash is the source's current hash
\* (a descriptor whose stored hash differs is copied).
SkipOnlyOnMatchingHash == \A s \in skips : s.hash \in s.stored

\* C4: the metadata store holds at most one row per source path, at all times.
AtMostOneRow == \A i \in 1..Len(library) : Len(db[i]) <= 1

\* C5: after two inserts for one source path, the lookup of that path returns
\* the destination, hash and score of the later insert.
LookupReturnsLatest ==
    \A i \in 1..Len(library) :
        Len(db[i]) >= 2 =>
            LET latest == db[i][Len(db[i])]
                row == GetMedia(db, i)
            IN  row.dst = latest.dst /\ row.hash = latest.hash /\ row.blur = latest.blur

\* C6: when a run is over, every file written for a raw has, for each photo
\* with the raw's basename prefix, a file written for that photo in the same
\* burst directory and with the same <score>_<id> name prefix.
RawNamedAsItsPhoto ==
    LET Stem(f) == SubSeq(f.path, 1, Len(f.path) - Len(Chars(library[f.src].ext)))
    IN  RunOver =>
            \A r \in dest : \A p \in 1..Len(library) :
                (/\ TypeOf(r.src) = RAW
                 /\ TypeOf(p) = PHOTO
                 /\ library[p].prefix = library[r.src].prefix
                 /\ \E f \in dest : f.src = p)
                => \E f \in dest : f.src = p /\ Stem(f) = Stem(r)

\* C7: when a run is over (also one that an error stopped), every raw written
\* to the destination has a photo of its basename prefix written there too.
NoOrphanRaw ==
    RunOver =>
        \A r \in dest :
            TypeOf(r.src) = RAW =>
                \E f \in dest : /\ TypeOf(f.src) = PHOTO
                                /\ library[f.src].prefix = library[r.src].prefix

VideoNamedById ==
    \A f \in dest :
        TypeOf(f.src) \in {VIDEO, UNKNOWN} =>
            \E burst \in 0..Len(library) :
                f.path = Join(Join(Chars("to"), Sprint(burst)),
                              Sprint(f.src - 1) \o Chars(library[f.src].ext))

\* C10: two photos in one burst directory with different scores have their
\* file names in the lexical order that is the order of their scores.
NamesSortByScore ==
    \A f, g \in dest :
        (/\ TypeOf(f.src) = PHOTO /\ TypeOf(g.src) = PHOTO
         /\ f.clusterId = g.clusterId
         /\ f.blur # g.blur)
        => (LexLess(f.path, g.path) <=> f.blur < g.blur)

\* No goroutine of the pipeline runs.
NoWorker ==
    /\ ~started
    /\ \A w \in BlurWorkers : bw[w].pc = "off"
    /\ \A c \in CopyWorkers : cw[c].pc = "off"

\* The destination is as the latest run found it.
NothingWritten ==
    /\ dest = before.dest
    /\ dirs = before.dirs
    /\ store = before.store
    /\ db = before.db

\* The latest run reached the space check: its options are valid, the glob
\* matched at least two files and their sizes could be read.
ReachedSpaceCheck ==
    /\ run >= 1
    /\ ValidateOpts(opts) = "nil"
    /\ ListMedia(library).Error = "nil"
    /\ GatherFacts(library, freeSpace).Error = "nil"

\* C11: when the probed free space is smaller than the total size of the
\* source files, the run is rejected with no burst directory, destination file
\* or metadata store created and no worker started; when the free space is at
\* least the total size, the run is not rejected by the space check.
SpaceGuard ==
    ReachedSpaceCheck =>
        IF freeSpace < TotalSize(library)
        THEN /\ phase = "idle"
             /\ preflight.verdict = "nospace"
             /\ NothingWritten
             /\ NoWorker
        ELSE preflight.verdict # "nospace"

\* A run on a library one byte larger than the free space has been rejected.
SpaceGuardRejects ==
    /\ ReachedSpaceCheck
    /\ freeSpace + 1 = TotalSize(library)
    /\ preflight.verdict = "nospace"

\* C13: the process exits with 0 when the run succeeds or the user declines,
\* with 1 when the options are invalid, the glob matches fewer than two
\* files, the space check fails or the pipeline fails; and with nothing else.
ExitCodes ==
    (phase = "idle" /\ exit \in {"0", "panic"}) =>
        /\ ExitStatus(exit) \in {0, 1}
        /\ preflight.verdict = "declined" => ExitStatus(exit) = 0
        /\ (preflight.verdict \in {"invalid", "nomatch", "nospace"} \/ errSeen)
              => ExitStatus(exit) = 1

\* C14: when the prompt is answered "no", the run ends with status 0 and has
\* written nothing: no burst directory, destination file or metadata store,
\* and no worker was started.
DeclineWritesNothing ==
    preflight.answer = "no" =>
        /\ phase = "idle"
        /\ ExitStatus(exit) = 0
        /\ NothingWritten
        /\ NoWorker

\* A run was declined on a destination that an earlier run had written to.
DeclinedAfterCopy ==
    /\ preflight.answer = "no"
    /\ preflight.verdict = "declined"
    /\ dest # {}
    /\ store

\* C12: ListMedia returns an error and an empty library when the glob matches
\* no file or one file; for n >= 2 matches it returns n descriptors, the i-th
\* for the i-th matched path, with the ids 0..n-1 in that order.
ListMediaContract ==
    (call.fn = "ListMedia" /\ ret.done) =>
        LET n == Len(call.files)
            listed == ret.value
        IN  IF n <= 1
            THEN listed.Error # "nil" /\ Len(listed.Value) = 0
            ELSE /\ listed.Error = "nil"
                 /\ Len(listed.Value) = n
                 /\ \A i \in 1..n : listed.Value[i].src = i /\ listed.Value[i].id = i - 1
                 /\ \A i, j \in 1..n : i # j => listed.Value[i].id # listed.Value[j].id

\* ListMedia has returned for a glob that matched one file.
ListMediaRejectsOne ==
    /\ call.fn = "ListMedia"
    /\ ret.done
    /\ Len(call.files) = 1
    /\ ret.value.Error = "onematch"

\* C16: the options the clusterer is run with are the --max-seconds-diff and
\* --min-points of the command line (9 and 2 when they are not given).
ClustererUsesCommandLine ==
    (call.fn = "main" /\ ret.done) =>
        /\ ret.value.maxSecondsDiff = call.args.maxSecondsDiff
        /\ ret.value.minPoints = call.args.minPoints

\* The sources on their way to the destination, each with the path it is or
\* will be written to: the results of the scoring stage, the copy jobs, the
\* media the replication workers hold, and the files written.
Destined ==
    {<<blurResults[k].Value.src, GetDestinationPath(library, blurResults[k].Value)>> :
        k \in {n \in 1..Len(blurResults) : blurResults[n].Error = "nil"}}
    \cup {<<copyJobs[k].Value.src, GetDestinationPath(library, copyJobs[k].Value)>> :
        k \in {n \in 1..Len(copyJobs) : copyJobs[n].Error = "nil"}}
    \cup {<<cw[c].media.src, GetDestinationPath(library, cw[c].media)>> :
        c \in {n \in CopyWorkers : cw[n].media.src # 0}}
    \cup {<<f.src, f.path>> : f \in dest}

\* C18: two distinct source files are never written to the same destination
\* path: whatever is written or about to be written at one path has one source.
UniqueFilenames ==
    \A a \in Destined : \A b \in Destined : a[2] = b[2] => a[1] = b[1]

\* Two photos of the same score have both been copied into one burst
\* directory: only their ids tell their names apart.
SameScoreSameBurst ==
    \E f \in dest : \E g \in dest :
        /\ f.src # g.src
        /\ f.done /\ g.done
        /\ f.clusterId = g.clusterId
        /\ f.blur = g.blur
        /\ library[f.src].ext = library[g.src].ext

\* File i is a raw and no photo of the library has its basename prefix.
UnpairedRaw(i) ==
    /\ library[i].ext \in {".rw2", ".raw"}
    /\ ~\E j \in 1..Len(library) :
          /\ library[j].ext \in {".jpg", ".jpeg", ".png"}
          /\ library[j].prefix = library[i].prefix

\* C19: a raw without a photo of the same basename prefix is never forwarded
\* by the scoring stage (to its results, to copyJobs or to a replication
\* worker) and never written to the destination.
UnpairedRawDropped ==
    \A i \in 1..Len(library) :
        UnpairedRaw(i) =>
            /\ \A k \in 1..Len(blurResults) : blurResults[k].Value.src # i
            /\ \A k \in 1..Len(copyJobs) : copyJobs[k].Value.src # i
            /\ \A w \in BlurWorkers : bw[w].pc # "off" => bw[w].media.src # i
            /\ \A c \in CopyWorkers : cw[c].pc # "off" => cw[c].media.src # i
            /\ \A f \in dest : f.src # i

\* A scoring worker has taken a clustered raw without a photo from mediaChan.
UnpairedRawTaken ==
    \E i \in 1..Len(library) :
        /\ UnpairedRaw(i)
        /\ phase = "running"
        /\ started
        /\ \E k \in 1..Len(clusters.entries) : clusters.entries[k].src = i
        /\ \A k \in 1..Len(mediaChan) : mediaChan[k].src # i

\* The pieces of s between the occurrences of the character sep.
RECURSIVE Split(_, _)
Split(s, sep) ==
    IF s = <<>> THEN << <<>> >>
    ELSE LET rest == Split(Tail(s), sep)
         IN  IF Head(s) = sep THEN << <<>> >> \o rest
             ELSE << <<Head(s)>> \o Head(rest) >> \o Tail(rest)

\* s is the decimal rendering of an integer: digits without a leading zero,
\* after a minus sign for a negative one.
IsDecimal(s) ==
    LET digits == IF s # <<>> /\ Head(s) = 45 THEN Tail(s) ELSE s
    IN  /\ digits # <<>>
        /\ \A k \in 1..Len(digits) : digits[k] \in 48..57
        /\ Len(digits) > 1 => digits[1] # 48

\* The integer a decimal rendering stands for.
RECURSIVE Atoi(_)
Atoi(s) ==
    IF Head(s) = 45 THEN 0 - Atoi(Tail(s))
    ELSE IF Len(s) = 1 THEN s[1] - 48
    ELSE 10 * Atoi(SubSeq(s, 1, Len(s) - 1)) + (s[Len(s)] - 48)

\* C20: the destination path is <root>/<burst>/<score>_<id><ext> when a score
\* is set (blur is not -1) and <root>/<burst>/<id><ext> when it is not, with
\* burst, score and id in decimal: read back, the path gives exactly the
\* root, clusterId, blur, id and extension of the descriptor, so that equal
\* fields give equal paths.
DestinationPathFormat ==
    (call.fn = "GetDestinationPath" /\ ret.done) =>
        LET media == call.media
            ext == Chars(call.files[media.src].ext)
            parts == Split(ret.value, 47)
            name == parts[3]
            fields == Split(SubSeq(name, 1, Len(name) - Len(ext)), 95)
        IN  /\ Len(parts) = 3
            /\ parts[1] = Chars("to")
            /\ IsDecimal(parts[2]) /\ Atoi(parts[2]) = media.clusterId
            /\ Len(name) > Len(ext)
            /\ SubSeq(name, Len(name) - Len(ext) + 1, Len(name)) = ext
            /\ \A k \in 1..Len(fields) : IsDecimal(fields[k])
            /\ IF media.blur = -1
               THEN Len(fields) = 1 /\ Atoi(fields[1]) = media.id
               ELSE /\ Len(fields) = 2
                    /\ Atoi(fields[1]) = media.blur
                    /\ Atoi(fields[2]) = media.id

\* GetDestinationPath has returned for a descriptor whose score is 0, a
\* score that is set, and whose id has two digits.
DestinationPathOfScoreZero ==
    /\ call.fn = "GetDestinationPath"
    /\ ret.done
    /\ call.media.blur = 0
    /\ call.media.id >= 10

\* C21: a replication worker that reports a per-file error goes on to take
\* the next message: it leaves its loop only when copyJobs is closed.
WorkerSurvivesError ==
    \A c \in CopyWorkers :
        (cw[c].pc = "done" \/ (cw[c].pc = "send" /\ cw[c].next = "done"))
            => "copyJobs" \in closed

\* C22: once ProcessLibrary has returned the first error, no worker starts
\* writing another destination file or inserts another metadata row.
NoWorkAfterError ==
    [][phase = "returned" =>
          /\ \A f \in dest' : \E g \in dest : g.path = f.path
          /\ db' = db]_vars

\* C23: when a run has ended, every destination file that exists is complete.
NoHalfWritten ==
    phase = "idle" => \A f \in dest : f.done

\* C24: a replication worker that has finished handling a message (it is back
\* at its receive, or has left its loop) has closed every file it opened for it.
HandlesClosed ==
    \A c \in CopyWorkers : cw[c].pc \in {"recv", "done"} => cw[c].open = {}

\* C25: a photo whose EXIF data cannot be decoded is scored and replicated
\* like any other: no error for it reaches the orchestrator.
ExifFailureNotFatal ==
    \A k \in 1..Len(copyResults) :
        (library[copyResults[k].Value.src].fault = "exif")
            => copyResults[k].Error = "nil"

\* C26: a photo whose pixels cannot be decoded does not crash the process: a
\* run that went into the pipeline ends by panic only after a worker has
\* forwarded an error.
DecodeFailureForwarded ==
    (\E i \in 1..Len(library) : library[i].fault = "decode" /\ TypeOf(i) = PHOTO)
        => ~(phase = "idle" /\ exit = "panic" /\ preflight.verdict = "proceed"
             /\ ~errSeen)

\* C27: the scoring stage gives a photo its stored score only if the store's
\* row for the source has a valid score and the hash of the current source
\* bytes; otherwise the score is computed from the current bytes.
StoredScoreNeedsMatchingHash ==
    \A w \in BlurWorkers :
        bw[w].pc = "emit" =>
            LET src == bw[w].media.src
                row == GetMedia(db, src)
                reusable == /\ db[src] # <<>>
                            /\ row.blur >= 0
                            /\ row.hash = GetHash(src, srcVer[src])
            IN  ~reusable => bw[w].media.blur = GetBlur(library, src, srcVer[src])

\* C28: on a host with n >= 1 logical CPUs the scoring pool has
\* max(1, n - 1) workers, so at least one.
ScoringPoolSize ==
    (call.fn = "main" /\ ret.done) =>
        ret.value.blurWorkers = (IF call.args.cpus - 1 > 1 THEN call.args.cpus - 1 ELSE 1)

\* C29: the scoring workers have a single writer per descriptor: no library
\* descriptor is about to be written by two different scoring workers.
SingleWriter ==
    \A w, o \in BlurWorkers :
        (w # o /\ bw[w].pc = "emit" /\ bw[o].pc = "emit") =>
            {bw[w].sibs[k] : k \in 1..Len(bw[w].sibs)}
                \cap {bw[o].sibs[k] : k \in 1..Len(bw[o].sibs)} = {}

\* C30: the burst assignment does not change after clustering: every
\* destination file of a descriptor the clusterer put in a burst is written
\* under that burst id.
BurstKept ==
    LET entries == ClusterMedia(opts.maxSecondsDiff, opts.minPoints, library,
                               ListMedia(library).Value).entries
    IN  \A f \in dest : \A k \in 1..Len(entries) :
            entries[k].src = f.src => f.clusterId = entries[k].clusterId

\* C31: the pre-flight check uses the free space of the filesystem that holds
\* the destination directory: a destination with less free space than the
\* total source size is always rejected.
DestinationSpaceGuard ==
    (/\ call.fn = "PromptCopy" /\ ret.done
     /\ call.mounts[call.to] < TotalSize(call.files))
        => ret.value.Error = "nospace"

\* C32: no replication worker fails to create a destination file because its
\* burst directory is missing (os.Create fails only by the file's own fault),
\* and every descriptor that reaches the Replication Stage has a burst id in
\* 0..K-1, K the number of bursts of the run.
BurstDirectoryExists ==
    /\ \A k \in 1..Len(copyResults) :
           copyResults[k].Error = "create" =>
               library[copyResults[k].Value.src].fault = "create"
    /\ \A f \in dest : f.clusterId \in dirs
    /\ \A k \in 1..Len(copyJobs) :
           copyJobs[k].Error = "nil" =>
               copyJobs[k].Value.clusterId \in 0..(clusters.clusters - 1)

\* A file is being written in the directory of the last of several bursts.
WrittenInLastBurst ==
    /\ phase = "running"
    /\ clusters.clusters >= 2
    /\ \E f \in dest : f.clusterId = clusters.clusters - 1 /\ ~f.done

\* C33: after a run that ends without error every source file present in the
\* destination has a row in the metadata store whose destination path is the
\* path it was written to and whose hash is the hash of the source.
EveryCopyHasItsRow ==
    (Hung /\ ~errSeen) =>
        \A f \in dest :
            \E k \in 1..Len(db[f.src]) :
                /\ db[f.src][k].dst = f.path
                /\ db[f.src][k].hash = GetHash(f.src, srcVer[f.src])

\* C34: a failure to render the progress view in ProgressBar.Update is never
\* propagated: it does not end the run.
RenderFailureNotFatal ==
    (\E i \in 1..Len(library) : library[i].fault = "render") => exit # "panic"

\* C37: the progress bar's bytes copied never exceed the total of bytes to
\* copy, and the completed count of each media type never exceeds the number
\* of files of that type in the facts of the run.
ProgressWithinTotals ==
    /\ bar.completed <= bar.count
    /\ bar.photoCount <= bar.facts.PhotoCount
    /\ bar.rawCount <= bar.facts.RawCount
    /\ bar.videoCount <= bar.facts.VideoCount

\* C36: in one run each source file is written to at most one destination
\* path.
OneDestinationPerSource ==
    run = 1 => \A f, g \in dest : f.src = g.src => f.path = g.path

\* C38: a replication worker puts exactly one message on the results channel
\* for every message it takes: where every source is taken once, the results
\* channel never holds two messages for one source.
OneResultPerMessage ==
    \A j, k \in 1..Len(copyResults) :
        copyResults[j].Value.src = copyResults[k].Value.src => j = k

\* C39: whenever a run takes the already-copied shortcut for a descriptor,
\* the destination file that exists holds all the bytes of the source as it
\* is now.
ShortcutHasSameBytes ==
    Alive =>
        \A s \in skips : \A f \in dest :
            f.path = s.path => (f.done /\ f.src = s.src /\ f.ver = srcVer[s.src])

\* C40: no metadata-store operation is started after ProcessLibrary has
\* closed the store: no scoring worker has looked a row up in the closed
\* store, and no replication worker is about to insert a row once it is
\* closed.
StoreOpenWhenUsed ==
    /\ \A w \in BlurWorkers : bw[w].err # "closed"
    /\ phase = "returned" => \A c \in CopyWorkers : cw[c].pc # "insert"

====
